---- MODULE Spec2Model ----
(***************************************************************************)
(* Claude OAuth and configuration management (setupClaudeAuth) of          *)
(* knxam/claude-code-action: settings.json, the expiry policy, the token   *)
(* refresh exchange, .credentials.json and the secret propagation step.    *)
(* One invocation of setupClaudeAuth is one behaviour; its inputs (the     *)
(* parameters, the environment, the files found on disk, the answer of     *)
(* the token endpoint) are drawn from small sets.                          *)
(***************************************************************************)
EXTENDS Integers, Sequences, FiniteSets, TLC

VARIABLES
    pc,               \* position inside setupClaudeAuth
    now,              \* the clock read by Date.now()
    params,           \* accessToken, refreshToken, expiresAt, githubPat
    env,              \* process.env: GITHUB_REPOSITORY
    fsFails,          \* the files the filesystem refuses to write
    priorSettings,    \* settings.json as found at the start
    configDir,        \* whether the Claude config directory exists
    settingsFile,     \* settings.json on disk
    credentialsFile,  \* .credentials.json on disk
    expiresAt,        \* let expiresAt of setupOAuthCredentials
    finalAccessToken,
    finalRefreshToken,
    needsRefresh,
    checkTime,        \* Date.now() as read by isTokenNearExpiration
    response,         \* what the token endpoint answered
    refreshTime,      \* Date.now() as read after the refresh returned
    secretStore,      \* the repository's secret store
    trace,            \* the side effects of the invocation, in order
    log,              \* console.warn / console.error lines
    error,            \* the error that left setupClaudeAuth
    comment,          \* one call of createInitialComment
    quick             \* one run of the quick response entrypoint

vars == <<pc, now, params, env, fsFails, priorSettings, configDir, settingsFile,
          credentialsFile, expiresAt, finalAccessToken, finalRefreshToken,
          needsRefresh, checkTime, response, refreshTime, secretStore,
          trace, log, error, comment, quick>>

----------------------------------------------------------------------------
(* JavaScript values *)

\* undefined, for a string-valued parameter, environment variable or field
Undefined == "<undefined>"
\* undefined, for a string kept as its sequence of characters
UndefinedStr == << Undefined >>
\* a file, a record or a response that is not there
Absent == [t |-> "absent"]

\* JS truthiness of an optional string: undefined and "" are falsy
Truthy(s) == s # Undefined /\ s # ""
TruthyStr(s) == s # UndefinedStr /\ s # << >>

\* JS numbers: an integer or NaN
Num(v) == [nan |-> FALSE, v |-> v]
NaN == [nan |-> TRUE, v |-> 0]
IsNaN(n) == n.nan

\* now + x and x * 1000 with NaN propagated; undefined converts to NaN
UndefinedNum == [t |-> "undefined"]
ToNumber(x) == IF x = UndefinedNum THEN NaN ELSE x
JsAdd(a, b) == IF a.nan \/ b.nan THEN NaN ELSE Num(a.v + b.v)
JsMul(a, b) == IF a.nan \/ b.nan THEN NaN ELSE Num(a.v * b.v)

\* JSON values as they stand in a file
JNull == [t |-> "null"]
JBool(b) == [t |-> "boolean", b |-> b]
JNumber(v) == [t |-> "number", v |-> v]
JString(s) == [t |-> "string", s |-> s]
JArray(items) == [t |-> "array", items |-> items]
JObject(props) == [t |-> "object", props |-> props]
\* a file whose text is no JSON document, such as "{not json"
Malformed == [t |-> "malformed"]

\* how often x stands in seq, and whether it does
Count(seq, x) == Cardinality({ i \in 1..Len(seq) : seq[i] = x })
Has(seq, x) == \E i \in 1..Len(seq) : seq[i] = x

----------------------------------------------------------------------------
(* Bounds and inputs *)

\* Date.now() when setupClaudeAuth starts
StartTime == 1000
\* how many times in succession setupClaudeCodeSettings is run
MaxSettingsRuns == 2
\* the most the clock advances between two consecutive Date.now() reads
MaxTick == 1
\* the longest the token endpoint takes to answer, in milliseconds
MaxDelay == 2000

\* 60 minutes in milliseconds
BufferTime == 60 * 60 * 1000
\* Default 24h from now
DefaultLifetime == 24 * 60 * 60 * 1000

DigitChars == <<"0", "1", "2", "3", "4", "5", "6", "7", "8", "9">>

\* the decimal text of a natural number, as a sequence of characters
RECURSIVE ToChars(_)
ToChars(n) ==
    IF n < 10 THEN << DigitChars[n + 1] >>
    ELSE Append(ToChars(n \div 10), DigitChars[(n % 10) + 1])

AccessTokens == {Undefined, "", "at0"}
RefreshTokens == {Undefined, "", "rt0"}
GithubPats == {Undefined, "", "ghp_pat"}
Repositories == {Undefined, "owner/repo"}

\* CLAUDE_EXPIRES_AT: missing, empty, not a number, a number with a tail,
\* signed, padded, and timestamps around the 60 minute buffer
ExpiresAtInputs ==
    { UndefinedStr, << >>, <<"a", "b", "c">>, <<"1", "2", "a">>,
      <<"-", "5">>, <<" ", "+", "7">>, <<"-">>,
      ToChars(StartTime + 30 * 60 * 1000),
      ToChars(StartTime + BufferTime - 1),
      ToChars(StartTime + BufferTime),
      ToChars(StartTime + BufferTime + MaxTick),
      ToChars(StartTime + BufferTime + MaxTick + 1),
      ToChars(StartTime + 120 * 60 * 1000) }

FlagKey == "enableAllProjectMcpServers"
OtherKey == "theme"
NoProps == [k \in {} |-> JNull]

\* the settings objects a user may have written
SettingsObjects ==
    { JObject(NoProps),
      JObject([k \in {OtherKey} |-> JString("dark")]),
      JObject([k \in {FlagKey} |-> JBool(FALSE)]),
      JObject([k \in {FlagKey, OtherKey} |->
                  IF k = FlagKey THEN JBool(TRUE) ELSE JString("dark")]) }

\* settings.json as found: not there, not JSON, an object, or another JSON value
SettingsFiles ==
    { Absent, Malformed } \cup SettingsObjects \cup
    { JNull, JNumber(42), JString("dark"), JBool(TRUE),
      JArray(<< >>), JArray(<< JString("dark") >>) }

\* the JSON body of a 2xx answer; the cast to OAuthTokenResponse checks nothing
TokenBodies ==
    [ access_token : {Undefined, "at0", "at1"},
      refresh_token : {Undefined, "rt0", "rt1"},
      expires_in : {UndefinedNum, Num(3600)} ]

NetworkError == [t |-> "network_error"]
HttpResponse(status, body) == [t |-> "http", status |-> status, body |-> body]
Responses ==
    { NetworkError } \cup
    { HttpResponse(s, Malformed) : s \in {200, 401, 500} } \cup
    { HttpResponse(200, b) : b \in TokenBodies }

----------------------------------------------------------------------------
(* setupClaudeCodeSettings *)

\* JSON.parse: a syntax error for text that is no JSON, else the value; an
\* array comes back as an object that can also carry named properties
JsonParse(text) ==
    IF text = Malformed THEN [ok |-> FALSE, value |-> JNull]
    ELSE IF text.t = "array"
         THEN [ok |-> TRUE,
               value |-> [t |-> "array", items |-> text.items, named |-> NoProps]]
         ELSE [ok |-> TRUE, value |-> text]

\* p with p[key] = val, the other properties kept
WithProperty(p, key, val) ==
    [k \in (DOMAIN p) \cup {key} |-> IF k = key THEN val ELSE p[k]]

\* the assignment written as a toggle: a flag already true is set to false
SetPropertyToggles(v, key, val) ==
    CASE v.t = "object" ->
           [ok |-> TRUE,
            value |-> JObject(WithProperty(v.props, key,
                        IF key \in DOMAIN v.props /\ v.props[key] = val
                        THEN JBool(FALSE) ELSE val))]
      [] v.t = "array" ->
           [ok |-> TRUE,
            value |-> [v EXCEPT !.named = WithProperty(v.named, key, val)]]
      [] OTHER -> [ok |-> FALSE, value |-> v]

\* settings.enableAllProjectMcpServers = true, in a module (strict mode):
\* a TypeError on null and on a primitive, a named property on an array
SetProperty(v, key, val) ==
    CASE v.t = "object" ->
           [ok |-> TRUE, value |-> JObject(WithProperty(v.props, key, val))]
      [] v.t = "array" ->
           [ok |-> TRUE,
            value |-> [v EXCEPT !.named = WithProperty(v.named, key, val)]]
      [] OTHER -> [ok |-> FALSE, value |-> v]

\* JSON.stringify: an object by its properties, an array by its items alone
JsonStringify(v) ==
    CASE v.t = "object" -> JObject(v.props)
      [] v.t = "array" -> JArray(v.items)
      [] OTHER -> v

\* the settings read back, with null left in settings when the parse fails
ReadSettingsNoFallback(file) ==
    IF file = Absent THEN [value |-> JObject(NoProps), warned |-> FALSE]
    ELSE LET parsed == JsonParse(file)
         IN  [value |-> parsed.value, warned |-> ~parsed.ok]

\* the settings read back: {} when the file is not there or does not parse
ReadSettings(file) ==
    IF file = Absent THEN [value |-> JObject(NoProps), warned |-> FALSE]
    ELSE LET parsed == JsonParse(file)
         IN  IF parsed.ok THEN [value |-> parsed.value, warned |-> FALSE]
             ELSE [value |-> JObject(NoProps), warned |-> TRUE]

\* Bun.write of a file the filesystem refuses rejects
WriteFails(path, fails) == path \in fails

\* the whole of setupClaudeCodeSettings on the file found: the file left on
\* disk, the warnings logged, and the error thrown ("" when it returns)
SettingsRun(file, fails) ==
    LET read == ReadSettings(file)
        set == SetProperty(read.value, FlagKey, JBool(TRUE))
        warnings == IF read.warned
                    THEN << "warn: Failed to parse existing settings, creating new ones" >>
                    ELSE << >>
    IN  IF ~set.ok
        THEN [file |-> file, log |-> warnings, error |-> "TypeError"]
        ELSE IF WriteFails("settings.json", fails)
        THEN [file |-> file, log |-> warnings, error |-> "WriteError"]
        ELSE [file |-> JsonStringify(set.value), log |-> warnings, error |-> ""]

----------------------------------------------------------------------------
(* setupOAuthCredentials *)

WhiteSpace == {" "}
IsDigit(c) == \E i \in 1..10 : DigitChars[i] = c
DigitValue(c) == (CHOOSE i \in 1..10 : DigitChars[i] = c) - 1

RECURSIVE TrimStart(_)
TrimStart(s) ==
    IF s # << >> /\ Head(s) \in WhiteSpace THEN TrimStart(Tail(s)) ELSE s

\* the value of the leading digits of s, given the value acc read so far
RECURSIVE LeadingDigits(_, _)
LeadingDigits(s, acc) ==
    IF s # << >> /\ IsDigit(Head(s))
    THEN LeadingDigits(Tail(s), 10 * acc + DigitValue(Head(s)))
    ELSE acc

\* parseInt(s, 10): leading white space, a sign, then the longest run of
\* digits; whatever follows is ignored; NaN when there is no digit
ParseInt(s) ==
    LET t == TrimStart(s)
        signed == t # << >> /\ Head(t) \in {"-", "+"}
        sign == IF signed /\ Head(t) = "-" THEN -1 ELSE 1
        body == IF signed THEN Tail(t) ELSE t
    IN  IF body = << >> \/ ~IsDigit(Head(body)) THEN NaN
        ELSE Num(sign * LeadingDigits(body, 0))

\* Parse expiration time: Default 24h from now, unless the string is given
\* and parses
ParseExpiration(expiresAtStr, t) ==
    IF TruthyStr(expiresAtStr)
    THEN LET parsedExpiration == ParseInt(expiresAtStr)
         IN  IF ~IsNaN(parsedExpiration) THEN parsedExpiration
             ELSE Num(t + DefaultLifetime)
    ELSE Num(t + DefaultLifetime)

\* isTokenNearExpiration with > for >=: the boundary is not near expiry
IsTokenNearExpirationStrict(t, expires) ==
    ~IsNaN(expires) /\ t + BufferTime > expires.v

\* isTokenNearExpiration with a buffer of three hours
IsTokenNearExpirationWide(t, expires) ==
    ~IsNaN(expires) /\ t + 3 * BufferTime >= expires.v

\* isTokenNearExpiration at clock value t; a comparison with NaN is false
IsTokenNearExpiration(t, expires) ==
    ~IsNaN(expires) /\ t + BufferTime >= expires.v

\* response.ok: the status is in the range 200-299
ResponseOk(resp) == resp.status >= 200 /\ resp.status <= 299

\* refreshOAuthToken: throws when fetch rejects, when the answer is not ok
\* and when the body is no JSON; else returns the body as it came
RefreshOAuthToken(resp) ==
    IF resp = NetworkError THEN [ok |-> FALSE, error |-> "fetch failed"]
    ELSE IF ~ResponseOk(resp)
    THEN [ok |-> FALSE, error |-> "Failed to refresh token"]
    ELSE IF resp.body = Malformed THEN [ok |-> FALSE, error |-> "SyntaxError"]
    ELSE [ok |-> TRUE, tokenData |-> resp.body]

\* the refresh with the token variables assigned before the call is known to
\* have succeeded: a failed call leaves them undefined
RefreshOutcomeClobbers(resp, accessToken, refreshToken, expires, t) ==
    LET r == RefreshOAuthToken(resp)
    IN  IF r.ok
        THEN [access_token |-> r.tokenData.access_token,
              refresh_token |-> r.tokenData.refresh_token,
              expires_at |-> JsAdd(Num(t),
                                   JsMul(ToNumber(r.tokenData.expires_in), Num(1000))),
              log |-> << >>, error |-> ""]
        ELSE [access_token |-> Undefined,
              refresh_token |-> Undefined,
              expires_at |-> expires,
              log |-> << "log: Token refresh failed, using provided token as-is" >>,
              error |-> ""]

\* the refresh with expires_in taken for milliseconds and the refresh token
\* of the request kept
RefreshOutcomeKeepsToken(resp, accessToken, refreshToken, expires, t) ==
    LET r == RefreshOAuthToken(resp)
    IN  IF r.ok
        THEN [access_token |-> r.tokenData.access_token,
              refresh_token |-> refreshToken,
              expires_at |-> JsAdd(Num(t), ToNumber(r.tokenData.expires_in)),
              log |-> << >>, error |-> ""]
        ELSE [access_token |-> accessToken,
              refresh_token |-> refreshToken,
              expires_at |-> expires,
              log |-> << "log: Token refresh failed, using provided token as-is" >>,
              error |-> ""]

\* the try/catch around the refresh: the tokens and the expiry to go on with,
\* given those held so far and the clock when the call returned; the catch
\* logs the error and throws nothing
RefreshOutcome(resp, accessToken, refreshToken, expires, t) ==
    LET r == RefreshOAuthToken(resp)
    IN  IF r.ok
        THEN [access_token |-> r.tokenData.access_token,
              refresh_token |-> r.tokenData.refresh_token,
              expires_at |-> JsAdd(Num(t),
                                   JsMul(ToNumber(r.tokenData.expires_in), Num(1000))),
              log |-> << >>, error |-> ""]
        ELSE [access_token |-> accessToken,
              refresh_token |-> refreshToken,
              expires_at |-> expires,
              log |-> << "log: Token refresh failed, using provided token as-is" >>,
              error |-> ""]

\* JSON.stringify(credentials): a property that is undefined is left out,
\* NaN is written as null
CredentialsJson(accessToken, refreshToken, expires) ==
    LET keys == { k \in {"access_token", "refresh_token", "expires_at"} :
                    /\ k = "access_token" => accessToken # Undefined
                    /\ k = "refresh_token" => refreshToken # Undefined }
    IN  JObject([k \in keys |->
                   CASE k = "access_token" -> JString(accessToken)
                     [] k = "refresh_token" -> JString(refreshToken)
                     [] OTHER -> IF IsNaN(expires) THEN JNull
                                 ELSE JNumber(expires.v)])

\* the guard of the propagation step testing the PAT alone
ShouldUpdateSecretsPatOnly(githubPat, repository) == Truthy(githubPat)

\* the guard of the propagation step
ShouldUpdateSecrets(githubPat, repository) ==
    Truthy(githubPat) /\ Truthy(repository)

\* updateGitHubSecrets: throws without GITHUB_REPOSITORY and when a token
\* has no slice method; else only logs what it would do
UpdateGitHubSecrets(githubPat, accessToken, refreshToken, repository) ==
    IF ~Truthy(repository)
    THEN [ok |-> FALSE, error |-> "GITHUB_REPOSITORY environment variable not set"]
    ELSE IF accessToken = Undefined \/ refreshToken = Undefined
    THEN [ok |-> FALSE, error |-> "TypeError"]
    ELSE [ok |-> TRUE, error |-> ""]

\* the secret store after updateGitHubSecrets returned: nothing is written
SecretsAfterUpdate(store, accessToken, refreshToken) == store

\* the propagation step without its catch: the error of updateGitHubSecrets
\* leaves setupOAuthCredentials
PropagateOutcomeUncaught(githubPat, accessToken, refreshToken, repository, store) ==
    IF ~ShouldUpdateSecrets(githubPat, repository)
    THEN [calls |-> << >>, store |-> store, log |-> << >>, error |-> ""]
    ELSE LET r == UpdateGitHubSecrets(githubPat, accessToken, refreshToken,
                                      repository)
         IN  [calls |-> << "propagate" >>, store |-> store, log |-> << >>,
              error |-> IF r.ok THEN "" ELSE "TypeError"]

\* the propagation step: skipped unless the guard holds, else one call of
\* updateGitHubSecrets inside its try/catch, which warns and throws nothing
PropagateOutcome(githubPat, accessToken, refreshToken, repository, store) ==
    IF ~ShouldUpdateSecrets(githubPat, repository)
    THEN [calls |-> << >>, store |-> store, log |-> << >>, error |-> ""]
    ELSE LET r == UpdateGitHubSecrets(githubPat, accessToken, refreshToken,
                                      repository)
         IN  IF r.ok
             THEN [calls |-> << "propagate" >>,
                   store |-> SecretsAfterUpdate(store, accessToken, refreshToken),
                   log |-> << >>, error |-> ""]
             ELSE [calls |-> << "propagate" >>, store |-> store,
                   log |-> << "warn: Failed to update GitHub secrets" >>,
                   error |-> ""]

\* the early return testing the access token alone
NoCredentialsAccessOnly(accessToken, refreshToken) == ~Truthy(accessToken)

\* if (!accessToken || !refreshToken): OAuth is not in use
NoCredentials(accessToken, refreshToken) ==
    ~Truthy(accessToken) \/ ~Truthy(refreshToken)

----------------------------------------------------------------------------
(* setupClaudeAuth, one invocation *)

\* createInitialComment and the quick response are other entrypoints: not
\* called during setupClaudeAuth
NotCalled == [pc |-> "not_called"]

\* the catch of setupClaudeAuth: log the error and throw it again
AuthFailed == << "error: Failed to setup Claude authentication" >>

Init ==
    /\ pc = "settings"
    /\ now = StartTime
    /\ params \in [accessToken : AccessTokens, refreshToken : RefreshTokens,
                   expiresAt : ExpiresAtInputs, githubPat : GithubPats]
    /\ env \in [GITHUB_REPOSITORY : Repositories]
    /\ fsFails \in {{}, {"settings.json"}, {".credentials.json"}}
    /\ priorSettings \in SettingsFiles
    /\ configDir \in BOOLEAN
    /\ ~configDir => priorSettings = Absent
    /\ settingsFile = priorSettings
    /\ credentialsFile = Absent
    /\ expiresAt = NaN
    /\ finalAccessToken = Undefined
    /\ finalRefreshToken = Undefined
    /\ needsRefresh = FALSE
    /\ checkTime = 0
    /\ response = Absent
    /\ refreshTime = 0
    /\ secretStore = Absent
    /\ trace = << >>
    /\ log = << >>
    /\ error = ""
    /\ comment = NotCalled
    /\ quick = NotCalled

\* setupClaudeCodeSettings inside a catch that logs and goes on to the
\* credentials
SetupClaudeCodeSettingsSwallows ==
    /\ pc = "settings"
    /\ LET run == SettingsRun(settingsFile, fsFails)
       IN  /\ settingsFile' = run.file
           /\ error' = ""
           /\ pc' = "oauth"
           /\ log' = log \o run.log \o (IF run.error = "" THEN << >> ELSE AuthFailed)
           /\ trace' = IF run.error = "" THEN Append(trace, "write_settings")
                       ELSE trace
    /\ configDir' = TRUE
    /\ UNCHANGED <<now, params, env, fsFails, priorSettings, credentialsFile,
                   expiresAt, finalAccessToken, finalRefreshToken, needsRefresh,
                   checkTime, response, refreshTime, secretStore>>
    /\ UNCHANGED <<comment, quick>>

\* await setupClaudeCodeSettings(), and the catch when it throws
SetupClaudeCodeSettings ==
    /\ pc = "settings"
    /\ LET run == SettingsRun(settingsFile, fsFails)
       IN  /\ settingsFile' = run.file
           /\ error' = run.error
           /\ pc' = IF run.error = "" THEN "oauth" ELSE "thrown"
           /\ log' = log \o run.log \o (IF run.error = "" THEN << >> ELSE AuthFailed)
           /\ trace' = IF run.error = "" THEN Append(trace, "write_settings")
                       ELSE trace
    /\ configDir' = TRUE
    /\ UNCHANGED <<now, params, env, fsFails, priorSettings, credentialsFile,
                   expiresAt, finalAccessToken, finalRefreshToken, needsRefresh,
                   checkTime, response, refreshTime, secretStore>>
    /\ UNCHANGED <<comment, quick>>

\* setupOAuthCredentials up to the expiry decision: the early return without
\* both tokens, else the parse of the expiry and isTokenNearExpiration
CheckCredentials ==
    /\ pc = "oauth"
    /\ IF NoCredentials(params.accessToken, params.refreshToken)
       THEN /\ pc' = "done"
            /\ log' = Append(log, "log: No OAuth credentials provided, skipping OAuth setup")
            /\ UNCHANGED <<now, expiresAt, finalAccessToken, finalRefreshToken,
                           needsRefresh, checkTime, trace>>
       ELSE \E tick \in 0..MaxTick :
            LET parsed == ParseExpiration(params.expiresAt, now)
                near == IsTokenNearExpiration(now + tick, parsed)
            IN  /\ now' = now + tick
                /\ checkTime' = now + tick
                /\ expiresAt' = parsed
                /\ finalAccessToken' = params.accessToken
                /\ finalRefreshToken' = params.refreshToken
                /\ needsRefresh' = near
                /\ trace' = Append(trace, "evaluate_expiry")
                /\ pc' = IF near THEN "refresh" ELSE "write_credentials"
                /\ log' = log
    /\ UNCHANGED <<params, env, fsFails, priorSettings, configDir, settingsFile,
                   credentialsFile, response, refreshTime, secretStore, error>>
    /\ UNCHANGED <<comment, quick>>

\* if (needsRefresh): one call of refreshOAuthToken inside its try/catch
AttemptRefresh ==
    /\ pc = "refresh"
    /\ \E resp \in Responses, delay \in {0, MaxDelay} :
         LET out == RefreshOutcome(resp, finalAccessToken, finalRefreshToken,
                                   expiresAt, now + delay)
         IN  /\ response' = resp
             /\ now' = now + delay
             /\ refreshTime' = now + delay
             /\ finalAccessToken' = out.access_token
             /\ finalRefreshToken' = out.refresh_token
             /\ expiresAt' = out.expires_at
             /\ error' = out.error
             /\ pc' = IF out.error = "" THEN "write_credentials" ELSE "thrown"
             /\ log' = log \o out.log \o (IF out.error = "" THEN << >> ELSE AuthFailed)
    /\ trace' = Append(trace, "refresh")
    /\ UNCHANGED <<params, env, fsFails, priorSettings, configDir, settingsFile,
                   credentialsFile, needsRefresh, checkTime, secretStore>>
    /\ UNCHANGED <<comment, quick>>

\* Write credentials to file; a rejected write leaves setupClaudeAuth
WriteCredentials ==
    /\ pc = "write_credentials"
    /\ IF WriteFails(".credentials.json", fsFails)
       THEN /\ pc' = "thrown"
            /\ error' = "WriteError"
            /\ log' = log \o AuthFailed
            /\ UNCHANGED <<credentialsFile, trace>>
       ELSE /\ credentialsFile' =
                  CredentialsJson(finalAccessToken, finalRefreshToken, expiresAt)
            /\ trace' = Append(trace, "write_credentials")
            /\ pc' = "propagate"
            /\ UNCHANGED <<log, error>>
    /\ UNCHANGED <<now, params, env, fsFails, priorSettings, configDir, settingsFile,
                   expiresAt, finalAccessToken, finalRefreshToken, needsRefresh,
                   checkTime, response, refreshTime, secretStore>>
    /\ UNCHANGED <<comment, quick>>

\* the propagation step calling updateGitHubSecrets again after it threw, up
\* to three calls
PropagateSecretsRetry ==
    /\ pc = "propagate"
    /\ LET out == PropagateOutcome(params.githubPat, finalAccessToken,
                                   finalRefreshToken, env.GITHUB_REPOSITORY,
                                   secretStore)
           again == out.log # << >> /\ Count(trace, "propagate") < 2
       IN  /\ trace' = trace \o out.calls
           /\ secretStore' = out.store
           /\ error' = out.error
           /\ pc' = IF again THEN "propagate" ELSE "done"
           /\ log' = log \o out.log
    /\ UNCHANGED <<now, params, env, fsFails, priorSettings, configDir, settingsFile,
                   credentialsFile, expiresAt, finalAccessToken, finalRefreshToken,
                   needsRefresh, checkTime, response, refreshTime>>
    /\ UNCHANGED <<comment, quick>>

\* Optionally update GitHub secrets if PAT is provided; then setupClaudeAuth
\* returns
PropagateSecrets ==
    /\ pc = "propagate"
    /\ LET out == PropagateOutcome(params.githubPat, finalAccessToken,
                                   finalRefreshToken, env.GITHUB_REPOSITORY,
                                   secretStore)
       IN  /\ trace' = trace \o out.calls
           /\ secretStore' = out.store
           /\ error' = out.error
           /\ pc' = IF out.error = "" THEN "done" ELSE "thrown"
           /\ log' = log \o out.log \o (IF out.error = "" THEN << >> ELSE AuthFailed)
    /\ UNCHANGED <<now, params, env, fsFails, priorSettings, configDir, settingsFile,
                   credentialsFile, expiresAt, finalAccessToken, finalRefreshToken,
                   needsRefresh, checkTime, response, refreshTime>>
    /\ UNCHANGED <<comment, quick>>

Next ==
    \/ SetupClaudeCodeSettings
    \/ CheckCredentials
    \/ AttemptRefresh
    \/ WriteCredentials
    \/ PropagateSecrets

Spec == Init /\ [][Next]_vars

\* the awaited calls resolve or reject: the invocation does not stop midway
FairSpec == Spec /\ WF_vars(Next)

\* setupClaudeCodeSettings called again on the files the last call left,
\* whether that call returned or threw
SetupSettingsAgain ==
    /\ pc \in {"oauth", "thrown"}
    /\ Count(trace, "settings_again") < MaxSettingsRuns - 1
    /\ pc' = "settings"
    /\ error' = ""
    /\ trace' = Append(trace, "settings_again")
    /\ UNCHANGED <<now, params, env, fsFails, priorSettings, configDir,
                   settingsFile, credentialsFile, expiresAt, finalAccessToken,
                   finalRefreshToken, needsRefresh, checkTime, response,
                   refreshTime, secretStore, log, comment, quick>>

\* setupClaudeCodeSettings alone, run in succession, without OAuth parameters
SettingsInit ==
    /\ Init
    /\ params = [accessToken |-> Undefined, refreshToken |-> Undefined,
                 expiresAt |-> UndefinedStr, githubPat |-> Undefined]
    /\ env = [GITHUB_REPOSITORY |-> Undefined]

SettingsNext ==
    \/ SetupClaudeCodeSettings
    \/ SetupSettingsAgain

SettingsSpec == SettingsInit /\ [][SettingsNext]_vars

----------------------------------------------------------------------------
(* createInitialComment *)

\* the variables of setupClaudeAuth
authVars == <<pc, now, params, env, fsFails, priorSettings, configDir,
              settingsFile, credentialsFile, expiresAt, finalAccessToken,
              finalRefreshToken, needsRefresh, checkTime, response,
              refreshTime, secretStore, trace, log, error>>

\* setupClaudeAuth is another entrypoint: not called here
AuthNotCalled ==
    /\ pc = "not_called"
    /\ now = StartTime
    /\ params = [accessToken |-> Undefined, refreshToken |-> Undefined,
                 expiresAt |-> UndefinedStr, githubPat |-> Undefined]
    /\ env = [GITHUB_REPOSITORY |-> Undefined]
    /\ fsFails = {}
    /\ priorSettings = Absent
    /\ configDir = FALSE
    /\ settingsFile = Absent
    /\ credentialsFile = Absent
    /\ expiresAt = NaN
    /\ finalAccessToken = Undefined
    /\ finalRefreshToken = Undefined
    /\ needsRefresh = FALSE
    /\ checkTime = 0
    /\ response = Absent
    /\ refreshTime = 0
    /\ secretStore = Absent
    /\ trace = << >>
    /\ log = << >>
    /\ error = ""

\* process.env.CLAUDE_USE_PR_COMMENTS
UsePrCommentsInputs == {Undefined, "true", "false"}
\* process.env.CLAUDE_PR_NUMBER, as its characters: the number of the pull
\* request the quick response opened for the issue, or some other text
PrNumberInputs ==
    { UndefinedStr, << >>, <<"8">>, <<" ", "9">>, <<"1", "2", "a">>,
      <<"a", "b", "c">> }
\* context.entityNumber: the issue (or pull request) of the event; the pull
\* request opened for it afterwards has another number
EntityNumbers == {7}
\* context.eventName
EventNames == {"issues", "issue_comment", "pull_request_review_comment"}
\* process.env.GITHUB_OUTPUT
OutputFiles == {Undefined, "/github/output"}

IsPullRequestReviewCommentEvent(context) ==
    context.eventName = "pull_request_review_comment"

\* const usePrComments = process.env.CLAUDE_USE_PR_COMMENTS === "true"
UsePrComments(cenv) == cenv.CLAUDE_USE_PR_COMMENTS = "true"

\* usePrComments && prNumber
Redirected(cenv) == UsePrComments(cenv) /\ TruthyStr(cenv.CLAUDE_PR_NUMBER)

\* let targetNumber, after the redirection
TargetNumber(cenv, context) ==
    IF Redirected(cenv) THEN ParseInt(cenv.CLAUDE_PR_NUMBER)
    ELSE Num(context.entityNumber)

\* let commentLocation, after the redirection
CommentLocation(cenv) == IF Redirected(cenv) THEN "PR" ELSE "issue"

\* the fallback always aimed at the issue of the event
FallbackTargetIssue(cenv, context) == Num(context.entityNumber)

\* const fallbackTarget
FallbackTarget(cenv, context) ==
    IF Redirected(cenv) THEN ParseInt(cenv.CLAUDE_PR_NUMBER)
    ELSE Num(context.entityNumber)

\* the request of the first attempt: a reply to the review comment, or a
\* comment on targetNumber
FirstRequest(cenv, context, targetNumber) ==
    IF IsPullRequestReviewCommentEvent(context) /\ ~UsePrComments(cenv)
    THEN [api |-> "pulls.createReplyForReviewComment",
          number |-> Num(context.entityNumber)]
    ELSE [api |-> "issues.createComment", number |-> targetNumber]

\* the request of the fallback attempt
FallbackRequest(cenv, context) ==
    [api |-> "issues.createComment", number |-> FallbackTarget(cenv, context)]

\* one attempt: the awaited request, then appendFileSync of claude_comment_id
\* and the return. GitHub rejects a request when apiOk is false or the number
\* is NaN; appendFileSync throws when GITHUB_OUTPUT is undefined or the file
\* system refuses (appendOk false). returned is false when something threw.
Attempt(c, request, apiOk, appendOk) ==
    LET accepted == apiOk /\ ~IsNaN(request.number)
        id == Len(c.created) + 1
        appended == accepted /\ appendOk /\ c.env.GITHUB_OUTPUT # Undefined
    IN  [created |-> IF accepted
                     THEN Append(c.created, [id |-> id, api |-> request.api,
                                             number |-> request.number])
                     ELSE c.created,
         calls |-> Append(c.calls, IF accepted THEN "created" ELSE "rejected"),
         outputs |-> IF appended THEN Append(c.outputs, id) ELSE c.outputs,
         returned |-> appended,
         id |-> id]

CommentInit ==
    /\ AuthNotCalled
    /\ quick = NotCalled
    /\ \E cenv \in [CLAUDE_USE_PR_COMMENTS : UsePrCommentsInputs,
                    CLAUDE_PR_NUMBER : PrNumberInputs,
                    GITHUB_OUTPUT : OutputFiles],
          context \in [entityNumber : EntityNumbers, eventName : EventNames] :
         comment = [pc |-> "start", env |-> cenv, context |-> context,
                    targetNumber |-> Num(context.entityNumber),
                    commentLocation |-> "issue",
                    created |-> << >>, calls |-> << >>, outputs |-> << >>,
                    log |-> << >>, result |-> 0]

\* lines 20-38: the target of the comment
ChooseTarget ==
    /\ comment.pc = "start"
    /\ comment' = [comment EXCEPT
         !.pc = "first",
         !.targetNumber = TargetNumber(comment.env, comment.context),
         !.commentLocation = CommentLocation(comment.env),
         !.log = IF Redirected(comment.env)
                 THEN Append(@, "log: Redirecting comment") ELSE @]
    /\ UNCHANGED authVars
    /\ UNCHANGED quick

\* the try of lines 40-70; what throws in it lands in the catch of line 70
FirstAttempt ==
    /\ comment.pc = "first"
    /\ \E apiOk \in BOOLEAN, appendOk \in BOOLEAN :
         LET a == Attempt(comment,
                          FirstRequest(comment.env, comment.context,
                                       comment.targetNumber),
                          apiOk, appendOk)
         IN  comment' = [comment EXCEPT
               !.pc = IF a.returned THEN "returned" ELSE "fallback",
               !.created = a.created,
               !.calls = a.calls,
               !.outputs = a.outputs,
               !.result = IF a.returned THEN a.id ELSE @,
               !.log = IF a.returned
                       THEN Append(@, "log: Created initial comment")
                       ELSE Append(@, "error: Error in initial comment")]
    /\ UNCHANGED authVars
    /\ UNCHANGED quick

\* the try of lines 74-91 and its catch, which throws the error again
FallbackAttempt ==
    /\ comment.pc = "fallback"
    /\ \E apiOk \in BOOLEAN, appendOk \in BOOLEAN :
         LET a == Attempt(comment,
                          FallbackRequest(comment.env, comment.context),
                          apiOk, appendOk)
         IN  comment' = [comment EXCEPT
               !.pc = IF a.returned THEN "returned" ELSE "thrown",
               !.created = a.created,
               !.calls = a.calls,
               !.outputs = a.outputs,
               !.result = IF a.returned THEN a.id ELSE @,
               !.log = IF a.returned
                       THEN Append(@, "log: Created fallback comment")
                       ELSE Append(@, "error: Error creating fallback comment")]
    /\ UNCHANGED authVars
    /\ UNCHANGED quick

CommentNext ==
    \/ ChooseTarget
    \/ FirstAttempt
    \/ FallbackAttempt

CommentSpec == CommentInit /\ [][CommentNext]_vars

----------------------------------------------------------------------------
(* Quick response: run() *)

\* what the awaited checks of steps 4 to 6 answer
TriggerResults == {"true", "false", "throws"}
PermissionResults == {"true", "false", "throws"}
ActorResults == {"human", "throws"}
\* context.inputs.baseBranch
BaseBranches == {"", "main"}

\* the checks of steps 3 to 6, in order
Gates == <<"isPR", "checkTriggerAction", "checkWritePermissions",
           "checkHumanActor">>

\* steps 7 to 13, in order; "outputs" is the five appendFileSync of step 13
Steps == <<"reactions.createForIssue", "issues.get", "repos.get",
           "git.getRef", "git.createRef", "git fetch", "git checkout",
           "git commit", "git push", "pulls.create", "outputs">>

\* the calls that change the repository on GitHub
Mutating == {"reactions.createForIssue", "git.createRef", "git commit",
             "git push", "pulls.create"}

\* the call that fails in this run, if any
FailingCalls ==
    {"none", "setupGitHubToken"} \cup { Steps[i] : i \in 1..(Len(Steps) - 1) }

\* the permission check with its throw left out
GateOutcomeNoThrow(gate, in) ==
    CASE gate = "isPR" -> IF in.isPR THEN "skip" ELSE "pass"
      [] gate = "checkTriggerAction" ->
           CASE in.containsTrigger = "true" -> "pass"
             [] in.containsTrigger = "false" -> "skip"
             [] OTHER -> "throw"
      [] gate = "checkWritePermissions" ->
           IF in.hasWritePermissions \in {"true", "false"} THEN "pass"
           ELSE "throw"
      [] gate = "checkHumanActor" ->
           IF in.actor = "human" THEN "pass" ELSE "throw"

\* what a check does to the run: lets it pass, makes it return (skip), or
\* throws into the catch
GateOutcome(gate, in) ==
    CASE gate = "isPR" -> IF in.isPR THEN "skip" ELSE "pass"
      [] gate = "checkTriggerAction" ->
           CASE in.containsTrigger = "true" -> "pass"
             [] in.containsTrigger = "false" -> "skip"
             [] OTHER -> "throw"
      [] gate = "checkWritePermissions" ->
           IF in.hasWritePermissions = "true" THEN "pass" ELSE "throw"
      [] gate = "checkHumanActor" ->
           IF in.actor = "human" THEN "pass" ELSE "throw"

\* let sourceBranch
SourceBranch(in) == IF Truthy(in.baseBranch) THEN in.baseBranch ELSE "default_branch"

\* the outputs of step 13
CompletedOutputs(in) ==
    << [key |-> "CLAUDE_BRANCH", value |-> "newBranch"],
       [key |-> "CLAUDE_PR_NUMBER", value |-> "prNumber"],
       [key |-> "CLAUDE_USE_PR_COMMENTS", value |-> "true"],
       [key |-> "BASE_BRANCH", value |-> SourceBranch(in)],
       [key |-> "quick_response_completed", value |-> "true"] >>

\* the outputs of the catch
FailedOutputs ==
    << [key |-> "quick_response_completed", value |-> "false"],
       [key |-> "quick_response_error", value |-> "errorMessage"] >>

\* the catch of lines 278-287: setFailed, then the two appendFileSync, which
\* throw out of run() when GITHUB_OUTPUT is undefined
Catch(q) ==
    [q EXCEPT
       !.pc = IF q.in.GITHUB_OUTPUT = Undefined THEN "rejected" ELSE "failed",
       !.setFailed = TRUE,
       !.outputs = IF q.in.GITHUB_OUTPUT = Undefined THEN @
                   ELSE @ \o FailedOutputs]

QuickInit ==
    /\ AuthNotCalled
    /\ comment = NotCalled
    /\ \E in \in [isPR : BOOLEAN, containsTrigger : TriggerResults,
                  hasWritePermissions : PermissionResults,
                  actor : ActorResults, baseBranch : BaseBranches,
                  failing : FailingCalls, GITHUB_OUTPUT : OutputFiles] :
         quick = [pc |-> "setup", in |-> in, gate |-> 1, step |-> 1,
                  passed |-> << >>, ops |-> << >>, outputs |-> << >>,
                  setFailed |-> FALSE]

\* steps 1 and 2: the token, the client and the context
QuickSetup ==
    /\ quick.pc = "setup"
    /\ quick' = IF quick.in.failing = "setupGitHubToken" THEN Catch(quick)
                ELSE [quick EXCEPT !.pc = "gates"]
    /\ UNCHANGED authVars
    /\ UNCHANGED comment

\* steps 3 to 6, one check at a time
QuickGate ==
    /\ quick.pc = "gates"
    /\ LET gate == Gates[quick.gate]
           outcome == GateOutcome(gate, quick.in)
       IN  quick' =
             CASE outcome = "skip" -> [quick EXCEPT !.pc = "returned"]
               [] outcome = "throw" -> Catch(quick)
               [] OTHER ->
                    [quick EXCEPT
                       !.passed = Append(@, gate),
                       !.gate = @ + 1,
                       !.pc = IF quick.gate = Len(Gates) THEN "steps" ELSE @]
    /\ UNCHANGED authVars
    /\ UNCHANGED comment

\* steps 7 to 13, one call at a time; repos.get is called only when no base
\* branch is given
QuickStep ==
    /\ quick.pc = "steps"
    /\ LET step == Steps[quick.step]
           called == step = "repos.get" => ~Truthy(quick.in.baseBranch)
           after == [quick EXCEPT
                       !.step = @ + 1,
                       !.pc = IF quick.step = Len(Steps) THEN "completed" ELSE @]
       IN  quick' =
             CASE ~called -> after
               [] step = quick.in.failing -> Catch(quick)
               [] step = "outputs" ->
                    IF quick.in.GITHUB_OUTPUT = Undefined THEN Catch(quick)
                    ELSE [after EXCEPT
                            !.outputs = @ \o CompletedOutputs(quick.in)]
               [] OTHER -> [after EXCEPT !.ops = Append(@, step)]
    /\ UNCHANGED authVars
    /\ UNCHANGED comment

QuickNext ==
    \/ QuickSetup
    \/ QuickGate
    \/ QuickStep

QuickSpec == QuickInit /\ [][QuickNext]_vars

TypeOK ==
    /\ pc \in {"settings", "oauth", "refresh", "write_credentials", "propagate",
               "done", "thrown"}
    /\ error \in {"", "TypeError", "WriteError"}
    /\ (pc = "thrown") = (error # "")
    /\ needsRefresh \in BOOLEAN

----------------------------------------------------------------------------
(* Properties *)


\* both tokens were supplied and setupOAuthCredentials has taken its decision
Evaluated == Has(trace, "evaluate_expiry")
\* the call of setupOAuthCredentials is past its refresh step
PastRefresh == Evaluated /\ pc \in {"write_credentials", "propagate", "done", "thrown"}
\* .credentials.json has been written
Written == Has(trace, "write_credentials")
\* CLAUDE_EXPIRES_AT is given and starts with an integer
ExpiryGiven == TruthyStr(params.expiresAt) /\ ~IsNaN(ParseInt(params.expiresAt))
GivenExpiry == ParseInt(params.expiresAt).v
\* what .credentials.json holds under a key, Absent when the key is not there
Stored(key) ==
    IF credentialsFile # Absent /\ key \in DOMAIN credentialsFile.props
    THEN credentialsFile.props[key]
    ELSE Absent

\* the token endpoint was called and the call failed: fetch rejected, the
\* status was not 2xx, or the body was no JSON
RefreshFailed ==
    /\ response # Absent
    /\ \/ response = NetworkError
       \/ response.status < 200
       \/ response.status > 299
       \/ response.body = Malformed
RefreshSucceeded == response # Absent /\ ~RefreshFailed

\* C1: when both tokens are supplied and the parsed expires_at is within 60
\* minutes of the clock read by the expiry check (boundary included) or in the
\* past, the refresh exchange is issued exactly once in the call: once the
\* refresh step is passed the trace holds one refresh, whatever its outcome,
\* and it never holds more than one.
C1_RefreshExactlyOnce ==
    /\ Count(trace, "refresh") <= 1
    /\ (PastRefresh /\ ExpiryGiven /\ checkTime + BufferTime >= GivenExpiry)
         => Count(trace, "refresh") = 1

\* C1 witness: a finished call whose expires_at sat exactly on the 60 minute
\* boundary and whose single refresh failed.
C1_Witness ==
    /\ pc = "done"
    /\ ExpiryGiven
    /\ checkTime + BufferTime = GivenExpiry
    /\ Count(trace, "refresh") = 1
    /\ RefreshFailed

\* C2: when both tokens are supplied and expires_at is more than 60 minutes
\* after the clock read by the expiry check, no refresh is issued and the
\* record written to .credentials.json holds the input access_token,
\* refresh_token and expires_at.
C2_FarExpiryWritesOriginal ==
    (Evaluated /\ ExpiryGiven /\ checkTime + BufferTime < GivenExpiry)
      => /\ ~Has(trace, "refresh")
         /\ response = Absent
         /\ pc # "refresh"
         /\ Written =>
              credentialsFile =
                JObject([k \in {"access_token", "refresh_token", "expires_at"} |->
                           CASE k = "access_token" -> JString(params.accessToken)
                             [] k = "refresh_token" -> JString(params.refreshToken)
                             [] OTHER -> JNumber(GivenExpiry)])

\* C2 witness: a finished call with expires_at two hours out and the record
\* on disk.
C2_Witness ==
    /\ pc = "done"
    /\ Written
    /\ ExpiryGiven
    /\ GivenExpiry = StartTime + 120 * 60 * 1000
    /\ ~Has(trace, "refresh")

\* C3: when the refresh call fails, setupOAuthCredentials goes on with the
\* input tokens: the refresh error is never thrown (the call throws only when
\* the filesystem refuses the credentials write), the record written holds the
\* input access_token and refresh_token and the expiry decided before the
\* call, and the propagation step is reached and taken when its guard holds.
C3_RefreshFailureKeepsOriginal ==
    (PastRefresh /\ RefreshFailed)
      => /\ finalAccessToken = params.accessToken
         /\ finalRefreshToken = params.refreshToken
         /\ pc = "thrown" => (error = "WriteError" /\ ".credentials.json" \in fsFails)
         /\ pc \in {"propagate", "done"} =>
              /\ Written
              /\ Stored("access_token") = JString(params.accessToken)
              /\ Stored("refresh_token") = JString(params.refreshToken)
              /\ Stored("expires_at") =
                   JNumber(ParseExpiration(params.expiresAt, StartTime).v)
         /\ pc = "done" =>
              (Has(trace, "propagate") =
                 (Truthy(params.githubPat) /\ Truthy(env.GITHUB_REPOSITORY)))

\* C3 witness: the endpoint answered 401, the call finished, the record is on
\* disk and the propagation step was taken.
C3_Witness ==
    /\ pc = "done"
    /\ response # Absent
    /\ response # NetworkError
    /\ response.status = 401
    /\ Written
    /\ Has(trace, "propagate")

\* the record on disk agrees with the body the endpoint returned: each token
\* the body carries is stored as it came (one the body lacks is left out),
\* and with expires_in seconds in the body expires_at is the clock read once
\* the call returned plus expires_in * 1000
StoredIsReturned ==
    /\ \A k \in {"access_token", "refresh_token"} :
         Stored(k) = IF response.body[k] = Undefined THEN Absent
                     ELSE JString(response.body[k])
    /\ response.body.expires_in # UndefinedNum =>
         Stored("expires_at") =
           JNumber(refreshTime + response.body.expires_in.v * 1000)

\* the bodies that carry all three fields of OAuthTokenResponse
WellFormedBodies ==
    { b \in TokenBodies :
        /\ b.access_token # Undefined
        /\ b.refresh_token # Undefined
        /\ b.expires_in # UndefinedNum }

\* an input token value stands in the record on disk
OriginalStored ==
    \/ Stored("access_token") \in
         {JString(params.accessToken), JString(params.refreshToken)}
    \/ Stored("refresh_token") \in
         {JString(params.accessToken), JString(params.refreshToken)}

\* C4 as stated: after a successful refresh (a body with all three fields)
\* the record written equals the returned access_token and refresh_token
\* with expires_at = call_time + expires_in * 1000, and no input token value
\* appears in it.
C4_AsStated ==
    (RefreshSucceeded /\ Written /\ response.body \in WellFormedBodies)
      => (StoredIsReturned /\ ~OriginalStored)

\* C4 amended: after a successful refresh the record written equals the
\* returned access_token and refresh_token with expires_at = call_time +
\* expires_in * 1000; an input token value appears in the record only where
\* the endpoint returned that same value.
C4_RefreshedRecordIsReturned ==
    (RefreshSucceeded /\ Written)
      => /\ StoredIsReturned
         /\ \A k \in {"access_token", "refresh_token"} :
              Stored(k) \in {JString(params.accessToken), JString(params.refreshToken)}
                => response.body[k] \in {params.accessToken, params.refreshToken}

\* C4 witness: the endpoint answered after a delay with two new tokens and
\* expires_in, and the record is on disk.
C4_Witness ==
    /\ pc = "done"
    /\ RefreshSucceeded
    /\ Written
    /\ refreshTime > checkTime
    /\ response.body.access_token = "at1"
    /\ response.body.refresh_token = "rt1"
    /\ response.body.expires_in = Num(3600)

\* C5: when accessToken or refreshToken is undefined or empty the call of
\* setupOAuthCredentials does nothing, whatever expires-at and the
\* secret-updater token are: the expiry is not evaluated, no refresh is sent,
\* .credentials.json is not written, no propagation is attempted, the secret
\* store is untouched, and the call returns without an error.
C5_NoTokensNoOp ==
    (~Truthy(params.accessToken) \/ ~Truthy(params.refreshToken))
      => /\ credentialsFile = Absent
         /\ response = Absent
         /\ secretStore = Absent
         /\ \A e \in {"evaluate_expiry", "refresh", "write_credentials", "propagate"} :
              ~Has(trace, e)
         /\ pc \in {"settings", "oauth", "done", "thrown"}
         /\ pc = "thrown" => ~Has(trace, "write_settings")
         /\ pc = "done" => error = ""

\* C5 witness: a finished invocation with an access token, an empty refresh
\* token, a near expiry and a secret-updater token.
C5_Witness ==
    /\ pc = "done"
    /\ params.accessToken = "at0"
    /\ params.refreshToken = ""
    /\ params.expiresAt = <<"-", "5">>
    /\ params.githubPat = "ghp_pat"
    /\ env.GITHUB_REPOSITORY = "owner/repo"

\* the settings step returned: setupClaudeCodeSettings completed
SettingsDone == Has(trace, "write_settings")

\* C6: once setupClaudeCodeSettings has completed, whatever settings.json
\* held before (nothing, a JSON object or any other JSON value), the file
\* written is an object holding enableAllProjectMcpServers = true and every
\* other key found before, with its value.
C6_FlagPresentKeysKept ==
    SettingsDone
      => /\ settingsFile.t = "object"
         /\ FlagKey \in DOMAIN settingsFile.props
         /\ settingsFile.props[FlagKey] = JBool(TRUE)
         /\ priorSettings.t = "object" =>
              \A k \in (DOMAIN priorSettings.props) \ {FlagKey} :
                /\ k \in DOMAIN settingsFile.props
                /\ settingsFile.props[k] = priorSettings.props[k]

\* the place of a side effect in the order the invocation takes them
Rank(e) ==
    CASE e = "write_settings" -> 1
      [] e = "evaluate_expiry" -> 2
      [] e = "refresh" -> 3
      [] e = "write_credentials" -> 4
      [] e = "propagate" -> 5

\* the side effects taken so far stand in that order, none of them twice
InOrder == \A i, j \in 1..Len(trace) : i < j => Rank(trace[i]) < Rank(trace[j])

Terminal == pc \in {"done", "thrown"}

\* C7: every invocation of setupClaudeAuth ends, completed or thrown, and
\* nothing is retried: its side effects come in the order write-settings,
\* evaluate-expiry (only with both tokens supplied), refresh, write-credentials,
\* propagate, each at most once; a completed invocation with both tokens has
\* written the credential record exactly once, refreshed or not; propagation
\* comes only after that write, and the record once written is never written
\* again or taken back.
C7_TerminatesInOrder ==
    /\ [](/\ InOrder
          /\ Evaluated =>
               (Truthy(params.accessToken) /\ Truthy(params.refreshToken)
                  /\ trace[1] = "write_settings")
          /\ Has(trace, "refresh") => Evaluated
          /\ Has(trace, "write_credentials") => Evaluated
          /\ Has(trace, "propagate") => Written
          /\ (pc = "done" /\ Truthy(params.accessToken) /\ Truthy(params.refreshToken))
               => Count(trace, "write_credentials") = 1
          /\ pc = "done" => trace[1] = "write_settings")
    /\ [][credentialsFile # Absent => credentialsFile' = credentialsFile]_vars
    /\ <>Terminal

\* C7 witness: a completed invocation that took all five steps, with a
\* refresh that failed and a propagation that failed.
C7_Witness ==
    /\ pc = "done"
    /\ trace = << "write_settings", "evaluate_expiry", "refresh",
                  "write_credentials", "propagate" >>
    /\ Has(log, "warn: Failed to update GitHub secrets")

\* the expiry the decision is taken on, as C8 states it: the integer parsed
\* from CLAUDE_EXPIRES_AT, or 24 hours after the start when it is missing or
\* does not parse
StatedExpiry == IF ExpiryGiven THEN GivenExpiry ELSE StartTime + DefaultLifetime

\* C8: the expires_at the expiry decision is taken on and the expires_at
\* written to disk are always timestamps: the decision uses the integer parsed
\* from expiresAtRaw, or now + 24 hours when it is missing or does not parse
\* (so that no refresh is issued then), and the record on disk holds a number.
C8_ExpiresAtAlwaysTimestamp ==
    /\ Evaluated =>
         /\ needsRefresh = (checkTime + BufferTime >= StatedExpiry)
         /\ ~ExpiryGiven => (~needsRefresh /\ ~Has(trace, "refresh"))
         /\ ~Has(trace, "refresh") => expiresAt = Num(StatedExpiry)
    /\ Written =>
         /\ Stored("expires_at") # Absent
         /\ Stored("expires_at").t = "number"

\* the part of C8 about the expiry decision and the record written without a
\* successful refresh
C8_DecisionPart ==
    /\ Evaluated =>
         /\ needsRefresh = (checkTime + BufferTime >= StatedExpiry)
         /\ ~ExpiryGiven => (~needsRefresh /\ ~Has(trace, "refresh"))
         /\ ~Has(trace, "refresh") => expiresAt = Num(StatedExpiry)
    /\ (Written /\ ~RefreshSucceeded) => Stored("expires_at") = JNumber(StatedExpiry)
    /\ (Written /\ RefreshSucceeded /\ response.body.expires_in # UndefinedNum)
         => Stored("expires_at").t = "number"

\* C9: a settings.json that is no JSON is discarded with a warning and
\* setupClaudeCodeSettings writes exactly {"enableAllProjectMcpServers": true};
\* the parse failure is never thrown (the step throws only when the
\* filesystem refuses the write).
C9_MalformedSettingsReplaced ==
    (priorSettings = Malformed /\ pc # "settings")
      => /\ Has(log, "warn: Failed to parse existing settings, creating new ones")
         /\ SettingsDone = ("settings.json" \notin fsFails)
         /\ SettingsDone => settingsFile = JObject([k \in {FlagKey} |-> JBool(TRUE)])
         /\ ~SettingsDone => (pc = "thrown" /\ error = "WriteError")

\* C9 witness: settings.json was no JSON, the settings step returned and the
\* invocation completed.
C9_Witness ==
    /\ priorSettings = Malformed
    /\ SettingsDone
    /\ pc = "done"
    /\ settingsFile # Malformed

\* updateGitHubSecrets was called and threw: one of the tokens handed to it
\* was undefined
PropagationFailed ==
    /\ Has(trace, "propagate")
    /\ finalAccessToken = Undefined \/ finalRefreshToken = Undefined

\* C10: when updateGitHubSecrets throws, the error is caught in
\* setupOAuthCredentials and logged as a warning: the invocation completes
\* without an error, propagation was attempted once, and the propagation step
\* leaves .credentials.json as it was written.
C10_PropagationFailureCaught ==
    /\ [](PropagationFailed =>
            /\ pc = "done"
            /\ error = ""
            /\ Has(log, "warn: Failed to update GitHub secrets")
            /\ ~Has(log, "error: Failed to setup Claude authentication")
            /\ Count(trace, "propagate") = 1
            /\ Written
            /\ credentialsFile =
                 CredentialsJson(finalAccessToken, finalRefreshToken, expiresAt))
    /\ [][pc = "propagate" => credentialsFile' = credentialsFile]_vars

\* C10 witness: the endpoint returned no access_token, the record was
\* written, updateGitHubSecrets threw on the undefined token and the
\* invocation completed.
C10_Witness ==
    /\ pc = "done"
    /\ PropagationFailed
    /\ finalAccessToken = Undefined
    /\ Written
    /\ Has(log, "warn: Failed to update GitHub secrets")

\* the settings step is over and did not return: it threw
SettingsThrew == pc # "settings" /\ ~SettingsDone

\* C11: an error during settings setup (a refused write of settings.json, a
\* TypeError on the parsed settings) leaves setupClaudeAuth as a thrown error,
\* logged by its catch, and the credential setup is never started: the expiry
\* is not evaluated, no refresh is sent and .credentials.json is not written.
\* A refused write of settings.json always is such an error.
C11_SettingsFailureIsFatal ==
    /\ (pc # "settings" /\ "settings.json" \in fsFails) => SettingsThrew
    /\ SettingsThrew =>
         /\ pc = "thrown"
         /\ error \in {"WriteError", "TypeError"}
         /\ Has(log, "error: Failed to setup Claude authentication")
         /\ trace = << >>
         /\ credentialsFile = Absent
         /\ response = Absent
         /\ secretStore = Absent
         /\ settingsFile = priorSettings

\* C11 witness: both tokens given with a near expiry, the write of
\* settings.json refused, the invocation thrown.
C11_Witness ==
    /\ pc = "thrown"
    /\ error = "WriteError"
    /\ "settings.json" \in fsFails
    /\ params.accessToken = "at0"
    /\ params.refreshToken = "rt0"
    /\ params.expiresAt = <<"-", "5">>

\* a secret-updater credential is supplied and GITHUB_REPOSITORY is not set,
\* and the credentials have been written and the invocation is over
PatWithoutRepository ==
    /\ Terminal
    /\ Written
    /\ Truthy(params.githubPat)
    /\ ~Truthy(env.GITHUB_REPOSITORY)

C14_SecretsHoldWrittenTokens ==
    (pc = "done" /\ Written /\ Truthy(params.githubPat)
       /\ Truthy(env.GITHUB_REPOSITORY))
      => /\ secretStore # Absent
         /\ JString(secretStore.CLAUDE_ACCESS_TOKEN) = Stored("access_token")
         /\ JString(secretStore.CLAUDE_REFRESH_TOKEN) = Stored("refresh_token")

\* C12: setupClaudeCodeSettings is idempotent: whatever settings.json held at
\* first, a run that follows another run (returned or thrown) leaves the file
\* exactly as that run left it.
C12_SettingsIdempotent ==
    [][(pc = "settings" /\ Has(trace, "settings_again"))
         => settingsFile' = settingsFile]_vars

\* C12 witness: two runs that both returned, the first of which changed the
\* file it found (an object with the flag set to false and no other key).
C12_Witness ==
    /\ Count(trace, "write_settings") = 2
    /\ priorSettings = JObject([k \in {FlagKey} |-> JBool(FALSE)])
    /\ settingsFile = JObject([k \in {FlagKey} |-> JBool(TRUE)])

\* createInitialComment has ended, by a return or by a throw
CommentEnded == comment.pc \in {"returned", "thrown"}
\* comments are to go to the pull request: CLAUDE_USE_PR_COMMENTS is "true"
\* and CLAUDE_PR_NUMBER holds a value
ToPullRequest == Redirected(comment.env)

\* C15: when CLAUDE_USE_PR_COMMENTS is "true" and CLAUDE_PR_NUMBER is set,
\* every comment createInitialComment creates, on the first attempt and on the
\* fallback, for every event type, is an issue comment on the pull request of
\* that number (the integer CLAUDE_PR_NUMBER starts with) and never on the
\* issue of the event; the review-comment reply is never used.
C15_PrCommentsGoToPullRequest ==
    ToPullRequest =>
        /\ comment.pc # "start" =>
             /\ comment.targetNumber = ParseInt(comment.env.CLAUDE_PR_NUMBER)
             /\ comment.commentLocation = "PR"
        /\ \A i \in 1..Len(comment.created) :
             /\ comment.created[i].api = "issues.createComment"
             /\ comment.created[i].number = ParseInt(comment.env.CLAUDE_PR_NUMBER)
             /\ comment.created[i].number # Num(comment.context.entityNumber)

\* C15 witness: a review-comment event with comments redirected, whose first
\* creation was rejected and whose fallback comment was created.
C15_Witness ==
    /\ ToPullRequest
    /\ comment.context.eventName = "pull_request_review_comment"
    /\ comment.pc = "returned"
    /\ comment.calls = <<"rejected", "created">>
    /\ comment.created[1].number = Num(8)

\* C17: in every execution of createInitialComment, also when a step after the
\* first successful creation fails, at most one comment is created and
\* claude_comment_id is appended at most once; a second (fallback) comment is
\* created only when the first creation call itself failed, and the function
\* throws only when the fallback creation failed as well.
C17_AtMostOneComment ==
    /\ Len(comment.created) <= 1
    /\ Len(comment.outputs) <= 1
    /\ Len(comment.calls) = 2 => comment.calls[1] = "rejected"
    /\ comment.pc = "thrown" => comment.calls = <<"rejected", "rejected">>

\* the run performed a mutating operation or wrote a CLAUDE_* output
QuickActed ==
    \/ \E i \in 1..Len(quick.ops) : quick.ops[i] \in Mutating
    \/ \E i \in 1..Len(quick.outputs) :
         quick.outputs[i].key \in {"CLAUDE_BRANCH", "CLAUDE_PR_NUMBER",
                                   "CLAUDE_USE_PR_COMMENTS"}
\* every gate was passed earlier in this run
QuickGatesPassed ==
    /\ quick.passed = Gates
    /\ ~quick.in.isPR
    /\ quick.in.containsTrigger = "true"
    /\ quick.in.hasWritePermissions = "true"
    /\ quick.in.actor = "human"

\* C16: in the quick response no mutating operation (eyes reaction, branch ref
\* creation, commit, push, pull request creation) and no CLAUDE_* output is
\* performed unless all gates passed earlier in the run (not a PR, trigger
\* found, write permission, human actor); a run that skips performs none of
\* them and writes no quick_response_completed output.
C16_GatesBeforeMutations ==
    /\ QuickActed => QuickGatesPassed
    /\ quick.pc = "returned" =>
         /\ quick.in.isPR \/ quick.in.containsTrigger = "false"
         /\ quick.ops = << >>
         /\ quick.outputs = << >>
         /\ ~quick.setFailed

\* C16 witness: a run that passed the four gates, performed the five mutating
\* operations in order and wrote the outputs of step 13.
C16_Witness ==
    /\ quick.pc = "completed"
    /\ QuickGatesPassed
    /\ quick.ops = <<"reactions.createForIssue", "issues.get", "git.getRef",
                     "git.createRef", "git fetch", "git checkout",
                     "git commit", "git push", "pulls.create">>
    /\ quick.outputs = CompletedOutputs(quick.in)

====
